---------------------------- MODULE Spec2Model ----------------------------
(***************************************************************************)
(* A model of the Standard MIDI File codec of kherkman/sheetmusic:         *)
(*   - the decoder MidiParser (src/MidiParser.js),                         *)
(*   - the byte-level encoders exportToMidiFile, plain                     *)
(*     (src/unnamed/part_000) and pitch-bending (src/unnamed/part_001).    *)
(*                                                                         *)
(* JavaScript numbers are modelled by integers.  Two values of JavaScript  *)
(* that are no integers are modelled by integers no byte stream of the     *)
(* model produces: NaN (also standing for a typed array's `undefined`      *)
(* element, which behaves as NaN in every expression of the decoder) and   *)
(* Undefined (a property that was never assigned).                         *)
(***************************************************************************)
EXTENDS Integers, Sequences, FiniteSets, TLC

VARIABLES
    \* ---- the input of the decoder
    data,           \* the bytes handed to new MidiParser(data)
    hdr,            \* the header fields the file was written with
    \* ---- MidiParser's fields
    dataOffset,     \* this._dataOffset
    event,          \* this._event
    tempo,          \* this.tempo
    format,         \* this.format
    totalTracks,    \* this._totalTracks
    ticksPerBeat,   \* this.ticksPerBeat
    lastEventType,  \* this._lastEventType
    \* ---- the locals of _parseTracks
    trackIdx,       \* i
    trackEnd,       \* trackEnd
    tick,           \* tick
    pc,             \* where the constructor is
    err,            \* the message of the Error thrown, "" when none
    last,           \* what the last iteration of the event loop read
    \* ---- exportToMidiFile
    circles,        \* circlesToExport
    currentTempo,   \* currentTempo
    variant,        \* "plain" (part_000) or "bend" (part_001)
    noteEvents,     \* noteEvents after the sort
    midiBytes,      \* the Uint8Array built, <<>> when none
    alerted,        \* the text of alert(), "" when none
    downloaded,     \* whether a.click() ran
    xpc,            \* where the export is
    \* ---- the variable-length codec on its own
    vlqIn,          \* the number given to writeVariableLength
    vlqBuf,         \* the bytes writeVariableLength returned
    vlqOut,         \* what _readVariableLengthNumber returned
    \* ---- the pitch bend calculation on its own
    bendFrequency,  \* frequency, as its distance from 440 Hz in cents
    bend,           \* closestMidiNote, bendValue, lsb and msb computed for it
    \* ---- live playback (part_001)
    activeMidiOutput,   \* the output selected, "none" for undefined
    isInitialized,      \* midiChannelManager.isInitialized
    channels,           \* midiChannelManager.channels
    detached,           \* the channel objects of replaced arrays that a
                        \* pending timer still holds, by the timer's id
    timers,             \* the callbacks setTimeout has scheduled
    timeouts,           \* how many times setTimeout was called
    selects,            \* how many times setMidiOutput was called
    plays,              \* how many times playNoteOnMidiOutput was called
    now,                \* the time, in seconds
    sent,               \* the messages the last call sent
    liveOp              \* what the last call of live playback did

decoderVars == <<dataOffset, event, tempo, format, totalTracks, ticksPerBeat,
                 lastEventType, trackIdx, trackEnd, tick, pc, err, last>>
exportVars == <<circles, currentTempo, variant, noteEvents, midiBytes, alerted,
                downloaded, xpc>>
vlqVars == <<vlqIn, vlqBuf, vlqOut>>
bendVars == <<bendFrequency, bend>>
liveVars == <<activeMidiOutput, isInitialized, channels, detached, timers, timeouts,
              selects, plays, now, sent, liveOp>>
vars == <<data, hdr, decoderVars, exportVars, vlqVars, bendVars, liveVars>>

-----------------------------------------------------------------------------
(* JavaScript numbers *)

\* NaN; data[i] past the end of the buffer is undefined, and undefined acts as
\* NaN in `n += data[i]` and as 0 in `v & 0x7F`, as NaN does.
NaN == 0 - 2000000000

\* the value of a property that was never assigned (event.duration)
Undefined == 0 - 2000000001

Pow2(k) == 2 ^ k

RECURSIVE BitAnd(_, _)
\* a & b for 0 <= a, b
BitAnd(a, b) ==
    IF a = 0 \/ b = 0 THEN 0
    ELSE (a % 2) * (b % 2) + 2 * BitAnd(a \div 2, b \div 2)

\* x & mask in JavaScript, for a mask below 2^16: NaN & mask is 0, and a
\* negative x is taken in two's complement.
JSAnd(x, mask) == IF x = NaN THEN 0 ELSE BitAnd(x % 65536, mask)

\* n << bits in JavaScript: ToInt32(n) shifted, the result again an int32.
Shl(n, bits) ==
    IF n = NaN THEN 0
    ELSE LET w == Pow2(32 - bits)
             m == n % w
         IN  (IF m >= w \div 2 THEN m - w ELSE m) * Pow2(bits)

\* n >> bits in JavaScript (n an int32): the arithmetic shift
Shr(n, bits) == n \div Pow2(bits)

\* a + b
JSAdd(a, b) == IF a = NaN \/ b = NaN THEN NaN ELSE a + b

\* a < b: false when either is NaN
JSLt(a, b) == a # NaN /\ b # NaN /\ a < b

\* a === b: false when either is NaN
StrictEq(a, b) == a # NaN /\ b # NaN /\ a = b

RECURSIVE GCD(_, _)
GCD(a, b) == IF b = 0 THEN a ELSE GCD(b, a % b)

Abs(x) == IF x < 0 THEN 0 - x ELSE x

\* a / b of JavaScript as an exact fraction in lowest terms with den >= 0:
\* den = 0 is NaN (num = 0) or +-Infinity (num = +-1).
JSDiv(a, b) ==
    IF a = NaN \/ b = NaN THEN [num |-> 0, den |-> 0]
    ELSE IF b = 0 THEN [num |-> (IF a > 0 THEN 1 ELSE IF a < 0 THEN 0 - 1 ELSE 0), den |-> 0]
    ELSE LET g == GCD(Abs(a), Abs(b))
             s == IF b < 0 THEN 0 - 1 ELSE 1
         IN  [num |-> s * (a \div g), den |-> Abs(b) \div g]

SeqMax(S) == CHOOSE x \in S : \A y \in S : y <= x


-----------------------------------------------------------------------------
(* The cursor of MidiParser: offsets count from 0, as in the source *)

\* this._data[i]
At(i) == IF i >= 0 /\ i < Len(data) THEN data[i + 1] ELSE NaN

\* an index of Uint8Array.prototype.slice: a negative one counts from the end
SliceIndex(i) ==
    IF i < 0 THEN (IF Len(data) + i < 0 THEN 0 ELSE Len(data) + i)
    ELSE IF i > Len(data) THEN Len(data) ELSE i

\* the bytes this._data.slice(off, off + len) that _readString decodes
ReadBytes(off, len) ==
    LET lo == SliceIndex(off)
        hi == SliceIndex(off + len)
    IN  IF hi <= lo THEN <<>> ELSE SubSeq(data, lo + 1, hi)

RECURSIVE ReadNumber(_, _)
\* the value _readNumber(len) returns with the cursor at off
ReadNumber(off, len) ==
    IF len <= 0 THEN 0
    ELSE JSAdd(Shl(ReadNumber(off, len - 1), 8), At(off + len - 1))

RECURSIVE ReadVLQFrom(_, _)
\* the do-while loop of _readVariableLengthNumber, n accumulated so far
ReadVLQFrom(n, off) ==
    LET v == At(off)
        n1 == Shl(n, 7) + JSAnd(v, 127)
    IN  IF JSAnd(v, 128) # 0 THEN ReadVLQFrom(n1, off + 1)
        ELSE [n |-> n1, off |-> off + 1]

\* _readVariableLengthNumber() with the cursor at off: the number and the
\* cursor after it
ReadVariableLengthNumberOneByte(off) == [n |-> JSAnd(At(off), 127), off |-> off + 1]

ReadVariableLengthNumber(off) == ReadVLQFrom(0, off)

MThd == <<77, 84, 104, 100>>
MTrk == <<77, 84, 114, 107>>

-----------------------------------------------------------------------------
(* The event handlers.  Each takes the event list, the tick and the cursor  *)
(* and gives the cursor and the lists after it, with the calls it made.     *)

Call(fn, a, b, at, end) == [fn |-> fn, a |-> a, b |-> b, at |-> at, end |-> end]

\* the index of the event _pushEvent's backward scan stops at, 0 when none
PushEventMatchAnyNote(ev, d) ==
    LET M == {i \in 1..Len(ev) :
                 /\ ev[i].type = 9
                 /\ StrictEq(ev[i].channel, d.channel)
                 /\ ev[i].duration = Undefined}
    IN  IF M = {} THEN 0 ELSE SeqMax(M)

PushEventMatch(ev, d) ==
    LET M == {i \in 1..Len(ev) :
                 /\ ev[i].type = 9
                 /\ StrictEq(ev[i].channel, d.channel)
                 /\ StrictEq(ev[i].note, d.note)
                 /\ ev[i].duration = Undefined}
    IN  IF M = {} THEN 0 ELSE SeqMax(M)

\* _pushEvent(tick, type, data)
PushEvent(ev, t, type, d) ==
    LET i == IF type = 8 THEN PushEventMatch(ev, d) ELSE 0
    IN  IF i # 0
        THEN [ev EXCEPT ![i].duration = t - ev[i].tick]
        ELSE Append(ev, [tick |-> t, type |-> type, duration |-> Undefined] @@ d)

\* _parseNoteOff(tick, channel): it reads its note and velocity at the cursor
ParseNoteOff(ev, tp, t, channel, off) ==
    LET note == ReadNumber(off, 1)
        velocity == ReadNumber(off + 1, 1)
    IN  [off   |-> off + 2,
         event |-> PushEvent(ev, t, 8, [channel |-> channel, note |-> note, velocity |-> velocity]),
         tempo |-> tp,
         calls |-> <<Call("_parseNoteOff", note, velocity, off + 2, off + 2)>>]

\* _parseNoteOn(tick, channel): on velocity 0 it calls _parseNoteOff(tick,
\* channel, note, velocity), which takes two parameters and reads its own note
\* and velocity at the cursor
ParseNoteOn(ev, tp, t, channel, off) ==
    LET note == ReadNumber(off, 1)
        velocity == ReadNumber(off + 1, 1)
        inner == ParseNoteOff(ev, tp, t, channel, off + 2)
    IN  IF StrictEq(velocity, 0)
        THEN [inner EXCEPT !.calls =
                 <<Call("_parseNoteOn", note, velocity, off + 2, inner.off)>> \o inner.calls]
        ELSE [off   |-> off + 2,
              event |-> PushEvent(ev, t, 9, [channel |-> channel, note |-> note, velocity |-> velocity]),
              tempo |-> tp,
              calls |-> <<Call("_parseNoteOn", note, velocity, off + 2, off + 2)>>]

\* _parseNoteAftertouch(tick, channel)
ParseNoteAftertouch(ev, tp, t, channel, off) ==
    LET note == ReadNumber(off, 1)
        value == ReadNumber(off + 1, 1)
    IN  [off   |-> off + 2,
         event |-> PushEvent(ev, t, 10, [channel |-> channel, note |-> note, value |-> value]),
         tempo |-> tp,
         calls |-> <<Call("_parseNoteAftertouch", note, value, off + 2, off + 2)>>]

\* _parseController(tick, channel)
ParseController(ev, tp, t, channel, off) ==
    LET controller == ReadNumber(off, 1)
        value == ReadNumber(off + 1, 1)
    IN  [off   |-> off + 2,
         event |-> PushEvent(ev, t, 11, [channel |-> channel, controller |-> controller, value |-> value]),
         tempo |-> tp,
         calls |-> <<Call("_parseController", controller, value, off + 2, off + 2)>>]

\* _parseProgramChange(tick, channel)
ParseProgramChange(ev, tp, t, channel, off) ==
    LET program == ReadNumber(off, 1)
    IN  [off   |-> off + 1,
         event |-> PushEvent(ev, t, 12, [channel |-> channel, program |-> program]),
         tempo |-> tp,
         calls |-> <<Call("_parseProgramChange", program, NaN, off + 1, off + 1)>>]

\* _parseChannelAftertouch(tick, channel)
ParseChannelAftertouch(ev, tp, t, channel, off) ==
    LET value == ReadNumber(off, 1)
    IN  [off   |-> off + 1,
         event |-> PushEvent(ev, t, 13, [channel |-> channel, value |-> value]),
         tempo |-> tp,
         calls |-> <<Call("_parseChannelAftertouch", value, NaN, off + 1, off + 1)>>]

\* _parsePitchBend(tick, channel): the two data bytes read as one big-endian
\* 16-bit number
ParsePitchBend(ev, tp, t, channel, off) ==
    LET value == ReadNumber(off, 2)
    IN  [off   |-> off + 2,
         event |-> PushEvent(ev, t, 14, [channel |-> channel, value |-> value]),
         tempo |-> tp,
         calls |-> <<Call("_parsePitchBend", value, NaN, off + 2, off + 2)>>]


\* _parseSetTempo(tick, eventType, eventLength)
ParseSetTempo(tp, t, off, eventLength) ==
    Append(tp, [tick |-> t, bpm |-> JSDiv(60000000, ReadNumber(off, eventLength))])

\* _parseMetaEvent(tick, eventType) and the handler its switch calls
ParseMetaEvent(ev, tp, t, off) ==
    LET metaEventType == ReadNumber(off, 1)
        len == ReadVariableLengthNumber(off + 1)
        metaEventLength == len.n
        end == CASE metaEventType = 47 -> len.off                      \* end of track
                 [] metaEventType = 84 -> len.off + 5                  \* smpte offset
                 [] metaEventType = 88 -> len.off + 4                  \* time signature
                 [] metaEventType = 89 -> len.off + 2                  \* key signature
                 [] OTHER              -> len.off + metaEventLength   \* by length
    IN  [off   |-> end,
         event |-> ev,
         tempo |-> IF metaEventType = 81 THEN ParseSetTempo(tp, t, len.off, metaEventLength) ELSE tp,
         calls |-> <<Call("_parseMetaEvent", metaEventType, metaEventLength, len.off, end)>>]

\* the switch of _parseTracks on eventType & 0xF0; calls = <<>> is the default
\* branch, which throws
Dispatch(ev, tp, t, eventType, off) ==
    LET kind == JSAnd(eventType, 240)
        channel == JSAnd(eventType, 15)
    IN  CASE kind = 128 -> ParseNoteOff(ev, tp, t, channel, off)
          [] kind = 144 -> ParseNoteOn(ev, tp, t, channel, off)
          [] kind = 160 -> ParseNoteAftertouch(ev, tp, t, channel, off)
          [] kind = 176 -> ParseController(ev, tp, t, channel, off)
          [] kind = 192 -> ParseProgramChange(ev, tp, t, channel, off)
          [] kind = 208 -> ParseChannelAftertouch(ev, tp, t, channel, off)
          [] kind = 224 -> ParsePitchBend(ev, tp, t, channel, off)
          [] kind = 240 -> ParseMetaEvent(ev, tp, t, off)
          [] OTHER      -> [off |-> off, event |-> ev, tempo |-> tp, calls |-> <<>>]

\* the running-status test of _parseTracks: the effective status byte and the
\* cursor at the first byte the handler reads, from the byte b read at off
RunningStatusOff(b, off) ==
    IF JSLt(b, 128) THEN [eventType |-> 0, first |-> off, running |-> TRUE]
    ELSE [eventType |-> b, first |-> off + 1, running |-> FALSE]

RunningStatusNoteOn(b, off) ==
    IF JSLt(b, 128)
    THEN [eventType |-> IF lastEventType = 0 THEN 144 ELSE lastEventType, first |-> off,
          running |-> TRUE]
    ELSE [eventType |-> b, first |-> off + 1, running |-> FALSE]

RunningStatus(b, off) ==
    IF JSLt(b, 128) THEN [eventType |-> lastEventType, first |-> off, running |-> TRUE]
    ELSE [eventType |-> b, first |-> off + 1, running |-> FALSE]

-----------------------------------------------------------------------------
(* The constructor of MidiParser, one action for each of its stages *)

NoLast == [start |-> 0, tick |-> 0, status |-> 0, running |-> FALSE, first |-> 0, calls |-> <<>>]

Throw(msg) ==
    /\ pc' = "error"
    /\ err' = "MidiParser: " \o msg

\* the guard of the constructor; the fields are set when it passes
ConstructorGuardNoLength ==
    ReadBytes(0, 4) # MThd

ConstructorGuard ==
    Len(data) < 18 \/ ReadBytes(0, 4) # MThd

New ==
    /\ pc = "new"
    /\ IF ConstructorGuard
       THEN /\ Throw("Wrong MIDI file format.")
            /\ UNCHANGED <<dataOffset, event, tempo, format, totalTracks, ticksPerBeat,
                           lastEventType, trackIdx, trackEnd, tick, last>>
       ELSE /\ dataOffset' = 0
            /\ event' = <<>>
            /\ tempo' = <<>>
            /\ format' = 0
            /\ totalTracks' = 0
            /\ ticksPerBeat' = 0
            /\ lastEventType' = 0
            /\ pc' = "header"
            /\ UNCHANGED <<err, trackIdx, trackEnd, tick, last>>
    /\ UNCHANGED <<data, hdr, exportVars, vlqVars, bendVars, liveVars>>

\* the three fields _parseHeader reads at off: format, track count, division
HeaderFieldsSwapped(off) ==
    [format |-> ReadNumber(off + 2, 2), totalTracks |-> ReadNumber(off, 2),
     ppqn |-> ReadNumber(off + 4, 2)]

HeaderFields(off) ==
    [format |-> ReadNumber(off, 2), totalTracks |-> ReadNumber(off + 2, 2),
     ppqn |-> ReadNumber(off + 4, 2)]

\* _parseHeader()
ParseHeader ==
    /\ pc = "header"
    /\ IF ReadBytes(dataOffset, 4) # MThd
       THEN /\ Throw("Wrong MIDI file format.")
            /\ dataOffset' = dataOffset + 4
            /\ UNCHANGED <<format, totalTracks, ticksPerBeat, trackIdx>>
       ELSE IF ~StrictEq(ReadNumber(dataOffset + 4, 4), 6)
       THEN /\ Throw("Wrong header length.")
            /\ dataOffset' = dataOffset + 8
            /\ UNCHANGED <<format, totalTracks, ticksPerBeat, trackIdx>>
       ELSE LET h == HeaderFields(dataOffset + 8)
            IN  /\ format' = h.format
                /\ totalTracks' = h.totalTracks
                /\ ticksPerBeat' = IF JSAnd(h.ppqn, 32768) # 0 THEN 0 ELSE h.ppqn
                /\ dataOffset' = dataOffset + 14
                /\ trackIdx' = 0
                /\ pc' = "track"
                /\ UNCHANGED err
    /\ UNCHANGED <<data, hdr, event, tempo, lastEventType, trackEnd, tick, last,
                   exportVars, vlqVars, bendVars, liveVars>>

\* the head of the for loop of _parseTracks, up to the while loop
TrackStart ==
    /\ pc = "track"
    /\ JSLt(trackIdx, totalTracks)
    /\ IF ReadBytes(dataOffset, 4) # MTrk
       THEN /\ Throw("Wrong track header.")
            /\ dataOffset' = dataOffset + 4
            /\ UNCHANGED <<trackEnd, tick>>
       ELSE /\ trackEnd' = JSAdd(dataOffset + 8, ReadNumber(dataOffset + 4, 4))
            /\ dataOffset' = dataOffset + 8
            /\ tick' = 0
            /\ pc' = "event"
            /\ UNCHANGED err
    /\ UNCHANGED <<data, hdr, event, tempo, format, totalTracks, ticksPerBeat,
                   lastEventType, trackIdx, last, exportVars, vlqVars, bendVars, liveVars>>

\* one iteration of the while loop of _parseTracks
ParseEvent ==
    /\ pc = "event"
    /\ JSLt(dataOffset, trackEnd)
    /\ LET delta == ReadVariableLengthNumber(dataOffset)
           t == tick + delta.n
           rs == RunningStatus(ReadNumber(delta.off, 1), delta.off)
           r == Dispatch(event, tempo, t, rs.eventType, rs.first)
       IN  /\ tick' = t
           /\ last' = [start |-> dataOffset, tick |-> t, status |-> rs.eventType,
                       running |-> rs.running, first |-> rs.first, calls |-> r.calls]
           /\ dataOffset' = r.off
           /\ event' = r.event
           /\ tempo' = r.tempo
           /\ IF r.calls = <<>>
              THEN /\ Throw("Unknown event type: ")
                   /\ UNCHANGED lastEventType
              ELSE /\ lastEventType' = rs.eventType
                   /\ UNCHANGED <<pc, err>>
    /\ UNCHANGED <<data, hdr, format, totalTracks, ticksPerBeat, trackIdx, trackEnd,
                   exportVars, vlqVars, bendVars, liveVars>>

\* the while loop of a track ends: the for loop goes to the next track
TrackEnd ==
    /\ pc = "event"
    /\ ~JSLt(dataOffset, trackEnd)
    /\ trackIdx' = trackIdx + 1
    /\ pc' = "track"
    /\ UNCHANGED <<data, hdr, dataOffset, event, tempo, format, totalTracks, ticksPerBeat,
                   lastEventType, trackEnd, tick, err, last, exportVars, vlqVars, bendVars, liveVars>>

\* the for loop ends and the constructor returns the parser
Return ==
    /\ pc = "track"
    /\ ~JSLt(trackIdx, totalTracks)
    /\ pc' = "done"
    /\ UNCHANGED <<data, hdr, dataOffset, event, tempo, format, totalTracks, ticksPerBeat,
                   lastEventType, trackIdx, trackEnd, tick, err, last, exportVars, vlqVars, bendVars, liveVars>>

Decode == New \/ ParseHeader \/ TrackStart \/ ParseEvent \/ TrackEnd \/ Return


-----------------------------------------------------------------------------
(* The byte writers of exportToMidiFile (the same in both variants) *)

\* write32
Write32(n) == <<JSAnd(Shr(n, 24), 255), JSAnd(Shr(n, 16), 255), JSAnd(Shr(n, 8), 255), JSAnd(n, 255)>>

\* write16
Write16(n) == <<JSAnd(Shr(n, 8), 255), JSAnd(n, 255)>>

RECURSIVE WriteVLQGroups(_)
\* the while loop of writeVariableLength: the groups unshifted for n
WriteVLQGroups(n) ==
    IF n > 0 THEN WriteVLQGroups(Shr(n, 7)) \o <<JSAnd(n, 127) + 128>> ELSE <<>>

\* writeVariableLength
WriteVariableLength(n) == WriteVLQGroups(Shr(n, 7)) \o <<JSAnd(n, 127)>>

RECURSIVE Flatten(_)
Flatten(ss) == IF ss = <<>> THEN <<>> ELSE Head(ss) \o Flatten(Tail(ss))

-----------------------------------------------------------------------------
(* The files the decoder is run on *)

MaxEvents == 3
MaxDelta == 1

\* delta-times: multiples of 200 ticks (200 takes two bytes)
Deltas == {200 * d : d \in 0..MaxDelta}

\* what follows a delta-time
Bodies == {
    <<144, 60, 100>>,                \* Note-On, channel 0, note 60
    <<144, 60, 0>>,                  \* Note-On with velocity 0
    <<145, 60, 100>>,                \* Note-On, channel 1
    <<144, 61, 100>>,                \* Note-On, note 61
    <<128, 60, 64>>,                 \* Note-Off, channel 0, note 60
    <<61, 100>>,                     \* data bytes only: running status
    <<60, 0>>,                       \* running status, velocity 0
    <<255, 81, 3, 7, 161, 32>>,      \* Set-Tempo, 500000
    <<255, 81, 4, 128, 0, 0, 1>>,    \* Set-Tempo with a 4-byte payload
    <<255, 47, 0>>,                  \* End-of-Track
    <<176, 7, 100>> }                \* Controller

Fragments == {WriteVariableLength(d) \o b : d \in Deltas, b \in Bodies}

RECURSIVE SeqsUpTo(_, _)
\* the sequences over S of length at most n
SeqsUpTo(S, n) ==
    IF n = 0 THEN {<<>>}
    ELSE LET R == SeqsUpTo(S, n - 1)
         IN  R \cup {Append(r, x) : r \in R, x \in S}

TrackChunk(body) == MTrk \o Write32(Len(body)) \o body

HeaderChunk(h) ==
    h.tag \o Write32(h.length) \o Write16(h.format) \o Write16(h.ntrks) \o Write16(h.division)

FileBytes(h, tracks) == HeaderChunk(h) \o Flatten([i \in 1..Len(tracks) |-> TrackChunk(tracks[i])])

Header(f, n, d) == [tag |-> MThd, length |-> 6, format |-> f, ntrks |-> n, division |-> d]

\* format 0, one track of up to MaxEvents events
EventFiles ==
    {[hdr |-> Header(0, 1, 480), tracks |-> <<Flatten(fs)>>] : fs \in SeqsUpTo(Fragments, MaxEvents)}

EndOfTrack == <<0, 255, 47, 0>>

\* headers of every format, track count and division, over End-of-Track tracks
HeaderFiles ==
    {[hdr |-> [Header(f, n, d) EXCEPT !.length = l],
      tracks |-> [i \in 1..k |-> EndOfTrack]] :
        f \in {0, 1, 2}, n \in {0, 1, 2, 258}, d \in {96, 480, 32767, 32768, 59176},
        l \in {6, 7}, k \in {0, 1, 2}}

\* files that do not start with the header tag
WrongTagFiles ==
    {[hdr |-> [Header(0, 1, 480) EXCEPT !.tag = t], tracks |-> <<EndOfTrack>>] :
        t \in {MTrk, <<77, 84, 104, 0>>, <<82, 73, 70, 70>>}}


InitDecoder ==
    /\ dataOffset = 0
    /\ event = <<>>
    /\ tempo = <<>>
    /\ format = 0
    /\ totalTracks = 0
    /\ ticksPerBeat = 0
    /\ lastEventType = 0
    /\ trackIdx = 0
    /\ trackEnd = 0
    /\ tick = 0
    /\ err = ""
    /\ last = NoLast

InitExportIdle ==
    /\ circles = <<>>
    /\ currentTempo = 120
    /\ variant = "plain"
    /\ noteEvents = <<>>
    /\ midiBytes = <<>>
    /\ alerted = ""
    /\ downloaded = FALSE
    /\ xpc = "off"

\* the pitch bend calculation not run
NoBend == [closestMidiNote |-> 0, bendValue |-> 0, lsb |-> 0, msb |-> 0]

InitBendIdle ==
    /\ bendFrequency = 0
    /\ bend = NoBend

\* null
Null == 0 - 1

\* live playback before any output is selected: the page's state on load
NoOp == [op |-> "", dropped |-> FALSE, threw |-> FALSE]

InitLiveIdle ==
    /\ activeMidiOutput = "none"
    /\ isInitialized = FALSE
    /\ channels = <<>>
    /\ detached = <<>>
    /\ timers = {}
    /\ timeouts = 0
    /\ selects = 0
    /\ plays = 0
    /\ now = 0
    /\ sent = <<>>
    /\ liveOp = NoOp

InitVLQIdle ==
    /\ vlqIn = 0
    /\ vlqBuf = <<>>
    /\ vlqOut = [n |-> 0, off |-> 0]
    /\ InitBendIdle
    /\ InitLiveIdle

\* a file of events is handed to new MidiParser
InitDecode ==
    /\ \E f \in EventFiles :
         /\ hdr = f.hdr
         /\ data = FileBytes(f.hdr, f.tracks)
    /\ pc = "new"
    /\ InitDecoder
    /\ InitExportIdle
    /\ InitVLQIdle

SpecDecode == InitDecode /\ [][Decode]_vars

\* the lengths a file is cut to: whole, and short of 14 and of 18 bytes
Cuts(n) == {n, 13, 17}

\* a file, whole or cut short, with any header is handed to new MidiParser
InitHeader ==
    /\ \E f \in HeaderFiles \cup WrongTagFiles :
         LET bytes == FileBytes(f.hdr, f.tracks)
         IN  /\ hdr = f.hdr
             /\ \E cut \in Cuts(Len(bytes)) :
                    data = SubSeq(bytes, 1, IF cut < Len(bytes) THEN cut ELSE Len(bytes))
    /\ pc = "new"
    /\ InitDecoder
    /\ InitExportIdle
    /\ InitVLQIdle

SpecHeader == InitHeader /\ [][Decode]_vars


-----------------------------------------------------------------------------
(* exportToMidiFile, plain (part_000) and pitch-bending (part_001)          *)
(*                                                                          *)
(* A circle is [relativeX, playLength, frequency, velocity]:                *)
(*   relativeX  in units of 1/BeatUnits beat,                               *)
(*   playLength in units of 1/SecUnits second,                              *)
(*   frequency  as its distance from 440 Hz in cents (1200 * log2(f/440)),  *)
(*   velocity   a number.                                                   *)
(* Products and quotients are exact; Math.round rounds halves up.           *)

BeatUnits == 4
SecUnits == 16

TICKS_PER_BEAT == 480
PITCH_BEND_RANGE_SEMITONES == 2

\* midiChannelManager.channelPool
channelPool == <<0, 1, 2, 3, 4, 5, 6, 7, 8, 10, 11, 12, 13, 14, 15>>

\* Math.round(num / den) for den > 0
JSRound(num, den) == (2 * num + den) \div (2 * den)

JSMin(a, b) == IF a < b THEN a ELSE b
JSMax(a, b) == IF a > b THEN a ELSE b

\* Math.min(...circlesToExport.map(c => c.relativeX)), 0 for an empty list
FirstBeat(cs) ==
    IF Len(cs) = 0 THEN 0
    ELSE CHOOSE x \in {cs[i].relativeX : i \in 1..Len(cs)} :
             \A i \in 1..Len(cs) : x <= cs[i].relativeX

\* startTick
StartTick(c, firstBeat) == JSRound((c.relativeX - firstBeat) * TICKS_PER_BEAT, BeatUnits)

\* durationTicks
DurationTicks(c, bpm) == JSRound(c.playLength * bpm * TICKS_PER_BEAT, 60 * SecUnits)

\* velocity: Math.max(1, Math.min(127, circle.velocity || 100))
Velocity(c) == JSMax(1, JSMin(127, IF c.velocity = 0 THEN 100 ELSE c.velocity))

\* frequencyToMidiNote of the plain variant: round(69 + 12 * log2(f / 440))
FrequencyToMidiNote(frequency) == JSRound(6900 + frequency, 100)

\* frequencyToClosestMidiNote (a frequency f > 0)
FrequencyToClosestMidiNote(frequency) == JSRound(6900 + frequency, 100)

\* bendValue centred on 8191
BendValueOffCentre(frequency) ==
    LET closestMidiNote == FrequencyToClosestMidiNote(frequency)
        centsDeviation == frequency - 100 * (closestMidiNote - 69)
        den == PITCH_BEND_RANGE_SEMITONES * 100
        num == 8191 * den + centsDeviation * 8191
    IN  IF num > 16383 * den THEN 16383
        ELSE IF num < 0 THEN 0
        ELSE JSRound(num, den)

\* bendValue: 8192 + centsDeviation / centsPerBendUnit, clamped to 0..16383,
\* then rounded; as a fraction it is num / (PITCH_BEND_RANGE_SEMITONES * 100)
BendValue(frequency) ==
    LET closestMidiNote == FrequencyToClosestMidiNote(frequency)
        centsDeviation == frequency - 100 * (closestMidiNote - 69)
        den == PITCH_BEND_RANGE_SEMITONES * 100
        num == 8192 * den + centsDeviation * 8191
    IN  IF num > 16383 * den THEN 16383
        ELSE IF num < 0 THEN 0
        ELSE JSRound(num, den)

\* the events the plain variant pushes for a circle
PlainEvents(c, firstBeat, bpm) ==
    LET startTick == StartTick(c, firstBeat)
        midiNote == FrequencyToMidiNote(c.frequency)
    IN  IF startTick >= 0
        THEN << [type |-> "on", tick |-> startTick, note |-> midiNote,
                 velocity |-> Velocity(c), channel |-> 0],
                [type |-> "off", tick |-> startTick + DurationTicks(c, bpm), note |-> midiNote,
                 velocity |-> 0, channel |-> 0] >>
        ELSE <<>>

\* the events the pitch-bending variant pushes for a circle on a channel
BendEvents(c, firstBeat, bpm, channel) ==
    LET startTick == StartTick(c, firstBeat)
        closestMidiNote == FrequencyToClosestMidiNote(c.frequency)
        bendValue == BendValue(c.frequency)
    IN  << [type |-> "bend", tick |-> startTick, lsb |-> JSAnd(bendValue, 127),
            msb |-> JSAnd(Shr(bendValue, 7), 127), channel |-> channel],
           [type |-> "on", tick |-> startTick, note |-> closestMidiNote,
            velocity |-> Velocity(c), channel |-> channel],
           [type |-> "off", tick |-> startTick + DurationTicks(c, bpm), note |-> closestMidiNote,
            velocity |-> 0, channel |-> channel] >>

RECURSIVE CollectPlain(_, _, _)
\* circlesToExport.forEach of the plain variant
CollectPlain(cs, firstBeat, bpm) ==
    IF cs = <<>> THEN <<>>
    ELSE PlainEvents(Head(cs), firstBeat, bpm) \o CollectPlain(Tail(cs), firstBeat, bpm)

RECURSIVE CollectBendOneChannel(_, _, _, _)
\* channelIndex never advanced
CollectBendOneChannel(cs, firstBeat, bpm, channelIndex) ==
    IF cs = <<>> THEN <<>>
    ELSE IF StartTick(Head(cs), firstBeat) < 0
         THEN CollectBendOneChannel(Tail(cs), firstBeat, bpm, channelIndex)
         ELSE BendEvents(Head(cs), firstBeat, bpm, channelPool[channelIndex + 1])
              \o CollectBendOneChannel(Tail(cs), firstBeat, bpm, channelIndex)

RECURSIVE CollectBend(_, _, _, _)
\* circlesToExport.forEach of the pitch-bending variant, channelIndex counting
\* from 0
CollectBend(cs, firstBeat, bpm, channelIndex) ==
    IF cs = <<>> THEN <<>>
    ELSE IF StartTick(Head(cs), firstBeat) < 0
         THEN CollectBend(Tail(cs), firstBeat, bpm, channelIndex)
         ELSE BendEvents(Head(cs), firstBeat, bpm, channelPool[channelIndex + 1])
              \o CollectBend(Tail(cs), firstBeat, bpm, (channelIndex + 1) % Len(channelPool))

\* the comparator of the plain variant's sort
ComparePlain(a, b) == a.tick - b.tick

\* typeOrder[type] || 99: the 0 of 'bend' is falsy
TypeOrder(type) ==
    LET typeOrder == CASE type = "bend" -> 0 [] type = "on" -> 1 [] type = "off" -> 2 [] OTHER -> 0
    IN  IF typeOrder = 0 THEN 99 ELSE typeOrder

\* the comparator of the pitch-bending variant's sort
CompareBend(a, b) ==
    IF a.tick # b.tick THEN a.tick - b.tick ELSE TypeOrder(a.type) - TypeOrder(b.type)

Compare(v, a, b) == IF v = "plain" THEN ComparePlain(a, b) ELSE CompareBend(a, b)

RECURSIVE InsertSorted(_, _, _)
\* e put into the sorted list after every element that does not compare
\* above it
InsertSorted(v, sorted, e) ==
    IF sorted = <<>> THEN <<e>>
    ELSE IF Compare(v, Head(sorted), e) > 0 THEN <<e>> \o sorted
    ELSE <<Head(sorted)>> \o InsertSorted(v, Tail(sorted), e)

RECURSIVE SortFrom(_, _, _)
SortFrom(v, sorted, rest) ==
    IF rest = <<>> THEN sorted
    ELSE SortFrom(v, InsertSorted(v, sorted, Head(rest)), Tail(rest))

\* noteEvents.sort(comparator): Array.prototype.sort is stable
Sort(v, evs) == SortFrom(v, <<>>, evs)

\* the Set-Tempo meta event at the head of the track
TempoBytes(bpm) ==
    LET microsecondsPerQuarterNote == JSRound(60000000, bpm)
    IN  <<0, 255, 81, 3,
          JSAnd(Shr(microsecondsPerQuarterNote, 16), 255),
          JSAnd(Shr(microsecondsPerQuarterNote, 8), 255),
          JSAnd(microsecondsPerQuarterNote, 255)>>

\* status | channel, for a status with its low nibble clear
Status(status, channel) == status + channel

\* the six controller messages that set the pitch bend range of a channel
RpnBytes(channel) ==
    <<0, Status(176, channel), 101, 0,
      0, Status(176, channel), 100, 0,
      0, Status(176, channel), 6, PITCH_BEND_RANGE_SEMITONES,
      0, Status(176, channel), 38, 0,
      0, Status(176, channel), 101, 127,
      0, Status(176, channel), 100, 127>>

\* the bytes pushed for one event after its delta-time
EventBytes(e) ==
    CASE e.type = "on"   -> <<Status(144, e.channel), e.note, e.velocity>>
      [] e.type = "off"  -> <<Status(128, e.channel), e.note, e.velocity>>
      [] e.type = "bend" -> <<Status(224, e.channel), e.lsb, e.msb>>

RECURSIVE EventsBytesAbsolute(_, _)
\* lastTick never advanced: every event written with its distance from the
\* first lastTick
EventsBytesAbsolute(evs, lastTick) ==
    IF evs = <<>> THEN <<>>
    ELSE WriteVariableLength(Head(evs).tick - lastTick) \o EventBytes(Head(evs))
         \o EventsBytesAbsolute(Tail(evs), lastTick)

RECURSIVE EventsBytes(_, _)
\* noteEvents.forEach: delta-time and bytes of each event, lastTick the tick
\* of the event before
EventsBytes(evs, lastTick) ==
    IF evs = <<>> THEN <<>>
    ELSE WriteVariableLength(Head(evs).tick - lastTick) \o EventBytes(Head(evs))
         \o EventsBytes(Tail(evs), Head(evs).tick)

\* trackBytes
TrackBytes(v, evs, bpm) ==
    TempoBytes(bpm)
    \o (IF v = "bend" THEN Flatten([i \in 1..Len(channelPool) |-> RpnBytes(channelPool[i])]) ELSE <<>>)
    \o EventsBytes(evs, 0)
    \o WriteVariableLength(0) \o <<255, 47, 0>>

\* header
ExportHeader == MThd \o Write32(6) \o Write16(0) \o Write16(1) \o Write16(TICKS_PER_BEAT)

\* new Uint8Array([...]): each number modulo 256
Uint8Array(bytes) == [i \in 1..Len(bytes) |-> bytes[i] % 256]

\* the test before alert("No notes to export.")
NothingToExportNever(evs) == FALSE

NothingToExport(evs) == Len(evs) = 0

\* exportToMidiFile(circlesToExport, currentTempo), whole
Export ==
    /\ xpc = "idle"
    /\ LET firstBeat == FirstBeat(circles)
           pushed == IF variant = "plain" THEN CollectPlain(circles, firstBeat, currentTempo)
                     ELSE CollectBend(circles, firstBeat, currentTempo, 0)
           sorted == Sort(variant, pushed)
           trackBytes == TrackBytes(variant, sorted, currentTempo)
       IN  IF NothingToExport(pushed)
           THEN /\ alerted' = "No notes to export."
                /\ xpc' = "alerted"
                /\ UNCHANGED <<noteEvents, midiBytes, downloaded>>
           ELSE /\ noteEvents' = sorted
                /\ midiBytes' = Uint8Array(ExportHeader \o MTrk \o Write32(Len(trackBytes)) \o trackBytes)
                /\ downloaded' = TRUE
                /\ xpc' = "exported"
                /\ UNCHANGED alerted
    /\ UNCHANGED <<data, hdr, decoderVars, circles, currentTempo, variant, vlqVars,
                 bendVars, liveVars>>

-----------------------------------------------------------------------------
(* The note lists exportToMidiFile is called with *)

MaxNotes == 2
MaxBeat == 2
MaxPlay == 2

\* 261.63 Hz (note 60) and 277.18 Hz (note 61)
Frequencies == {0 - 900, 0 - 800}

Velocities == {0, 64, 200}

Tempos == {125, 240}

Circles ==
    [relativeX : 0..MaxBeat, playLength : 0..MaxPlay, frequency : Frequencies,
     velocity : Velocities]

\* exportToMidiFile is about to be called, in either variant
InitExport ==
    /\ circles \in SeqsUpTo(Circles, MaxNotes)
    /\ currentTempo \in Tempos
    /\ variant \in {"plain", "bend"}
    /\ noteEvents = <<>>
    /\ midiBytes = <<>>
    /\ alerted = ""
    /\ downloaded = FALSE
    /\ xpc = "idle"
    /\ data = <<>>
    /\ hdr = Header(0, 1, TICKS_PER_BEAT)
    /\ pc = "off"
    /\ InitDecoder
    /\ InitVLQIdle

SpecExport == InitExport /\ [][Export]_vars

\* the file the plain variant wrote is handed to new MidiParser
Load ==
    /\ xpc = "exported"
    /\ pc = "off"
    /\ data' = midiBytes
    /\ pc' = "new"
    /\ UNCHANGED <<hdr, dataOffset, event, tempo, format, totalTracks, ticksPerBeat,
                   lastEventType, trackIdx, trackEnd, tick, err, last, exportVars, vlqVars, bendVars, liveVars>>

InitRoundTrip == InitExport /\ variant = "plain"

SpecRoundTrip == InitRoundTrip /\ [][Export \/ Load \/ Decode]_vars

-----------------------------------------------------------------------------
(* The variable-length codec on its own *)

VlqSpan == 8

\* the numbers within VlqSpan of a change in the number of 7-bit groups, up
\* to 2^28 - 1
VlqInputs ==
    {g + d : g \in {0, Pow2(7), Pow2(14), Pow2(21)}, d \in 0..VlqSpan}
    \cup {g - d : g \in {Pow2(7), Pow2(14), Pow2(21), Pow2(28)}, d \in 1..VlqSpan}

\* a number, and the bytes that come before its encoding in the buffer
InitVLQ ==
    /\ vlqIn \in VlqInputs
    /\ data \in {<<>>, <<129>>, <<0, 255>>}
    /\ vlqBuf = <<>>
    /\ vlqOut = [n |-> 0, off |-> 0]
    /\ InitBendIdle
    /\ InitLiveIdle
    /\ pc = "vlq"
    /\ hdr = Header(0, 1, TICKS_PER_BEAT)
    /\ InitDecoder
    /\ InitExportIdle

\* writeVariableLength(vlqIn), its bytes put in the buffer before a status byte
VlqWrite ==
    /\ pc = "vlq"
    /\ vlqBuf' = WriteVariableLength(vlqIn)
    /\ data' = data \o WriteVariableLength(vlqIn) \o <<144>>
    /\ dataOffset' = Len(data)
    /\ pc' = "vlq-written"
    /\ UNCHANGED <<hdr, event, tempo, format, totalTracks, ticksPerBeat, lastEventType,
                   trackIdx, trackEnd, tick, err, last, exportVars, vlqIn, vlqOut,
                   bendVars, liveVars>>

\* _readVariableLengthNumber() with the cursor at the first byte written
VlqRead ==
    /\ pc = "vlq-written"
    /\ vlqOut' = ReadVariableLengthNumber(dataOffset)
    /\ dataOffset' = ReadVariableLengthNumber(dataOffset).off
    /\ pc' = "vlq-read"
    /\ UNCHANGED <<data, hdr, event, tempo, format, totalTracks, ticksPerBeat, lastEventType,
                   trackIdx, trackEnd, tick, err, last, exportVars, vlqIn, vlqBuf,
                   bendVars, liveVars>>

SpecVLQ == InitVLQ /\ [][VlqWrite \/ VlqRead]_vars

-----------------------------------------------------------------------------
(* What the claims about the decoder speak of *)

\* a step of the model that is one iteration of the event loop
EventStep == pc = "event" /\ pc' # "track"

\* the first handler the iteration just done called
Handler == last.calls[1]

\* the index in ev of the most recent Note-On of channel c and note n whose
\* duration is unset, 0 when there is none
MostRecentOpen(ev, c, n) ==
    LET M == {i \in 1..Len(ev) :
                 ev[i].type = 9 /\ ev[i].channel = c /\ ev[i].note = n /\ ev[i].duration = Undefined}
    IN  IF M = {} THEN 0 ELSE SeqMax(M)

RECURSIVE SkipDelta(_)
\* the offset right after the delta-time that starts at off
SkipDelta(off) == IF At(off) # NaN /\ At(off) >= 128 THEN SkipDelta(off + 1) ELSE off + 1

\* the bytes of the only track of a file of events
TrackBody == SubSeq(data, 23, Len(data))

\* the events of type ty in ev
OfType(ev, ty) == SelectSeq(ev, LAMBDA e : e.type = ty)

(* C1: a Note-On with velocity 0, for channel c and note n at tick T, is   *)
(* treated as the Note-Off of note n on channel c at tick T: it closes the *)
(* most recent open Note-On of (c, n), or without one is recorded as a     *)
(* Note-Off carrying note n; it yields no Note-On record; and the next     *)
(* event is decoded from the byte right after the velocity byte.           *)
C1_VelocityZeroIsNoteOff ==
    [][ (EventStep /\ last'.calls # <<>> /\ Handler'.fn = "_parseNoteOn" /\ Handler'.b = 0)
        => LET c == last'.status % 16
               n == Handler'.a
               T == last'.tick
               i == MostRecentOpen(event, c, n)
           IN  /\ IF i # 0
                  THEN event' = [event EXCEPT ![i].duration = T - event[i].tick]
                  ELSE /\ Len(event') = Len(event) + 1
                       /\ SubSeq(event', 1, Len(event)) = event
                       /\ event'[Len(event')].type = 8
                       /\ event'[Len(event')].tick = T
                       /\ event'[Len(event')].channel = c
                       /\ event'[Len(event')].note = n
               /\ Len(OfType(event', 9)) = Len(OfType(event, 9))
               /\ dataOffset' = last'.first + 2
      ]_vars

\* whether the iteration just done decoded a Note-Off: a status 0x8c event, or
\* a Note-On with velocity 0; its note is the first data byte
IsNoteOff(h) == h.fn = "_parseNoteOff" \/ (h.fn = "_parseNoteOn" /\ h.b = 0)

(* C3: when a Note-Off for (c, n) is decoded at tick T, the most recent    *)
(* Note-On of (c, n) whose duration is unset gets duration T - its tick    *)
(* and no other event's duration changes; without a matching Note-Off a    *)
(* Note-On keeps its duration unset.                                       *)
C3_DurationPairing ==
    [][ (EventStep /\ last'.calls # <<>>)
        => LET c == last'.status % 16
               n == Handler'.a
               T == last'.tick
               i == IF IsNoteOff(Handler') THEN MostRecentOpen(event, c, n) ELSE 0
           IN  /\ Len(event') >= Len(event)
               /\ \A j \in 1..Len(event) :
                     event'[j] = IF j = i THEN [event[j] EXCEPT !.duration = T - event[j].tick]
                                 ELSE event[j]
      ]_vars

\* the stream [0,0x90,60,100, delta,61,100]
RunningExample == <<0, 144, 60, 100>> \o WriteVariableLength(200) \o <<61, 100>>

(* C6: when the byte after a delta-time is below 0x80, the decoder takes   *)
(* the status byte of the event decoded before, reads that byte as the     *)
(* first data byte, and decodes with the kind and channel of the event     *)
(* before; [0,0x90,60,100, delta,61,100] gives two Note-Ons on channel 0,  *)
(* notes 60 and 61.                                                        *)
C6_RunningStatus ==
    /\ [][ (EventStep /\ last.calls # <<>> /\ JSLt(At(SkipDelta(dataOffset)), 128))
           => /\ last'.running
              /\ last'.status = last.status
              /\ last'.first = SkipDelta(dataOffset)
              /\ last'.calls # <<>>
              /\ Handler'.fn = Handler.fn
              /\ Handler'.a = At(SkipDelta(dataOffset))
              /\ (Handler'.fn = "_parseNoteOn" /\ Handler'.b # 0 /\ Handler'.b # NaN)
                    => event' = Append(event, [tick |-> last'.tick, type |-> 9,
                                               duration |-> Undefined,
                                               channel |-> last.status % 16,
                                               note |-> Handler'.a,
                                               velocity |-> Handler'.b])
         ]_vars
    /\ [](pc = "done" /\ TrackBody = RunningExample
            => /\ Len(event) = 2
               /\ \A j \in 1..2 : event[j].type = 9 /\ event[j].channel = 0
               /\ event[1].note = 60 /\ event[2].note = 61
               /\ event[1].tick = 0 /\ event[2].tick = 200)

C6_Witness ==
    /\ pc = "done"
    /\ TrackBody = RunningExample
    /\ last.running
    /\ Len(event) = 2 /\ event[2].note = 61 /\ event[2].type = 9

\* the unsigned big-endian value of bytes
RECURSIVE BigEndian(_)
BigEndian(bytes) ==
    IF bytes = <<>> THEN 0
    ELSE 256 * BigEndian(SubSeq(bytes, 1, Len(bytes) - 1)) + bytes[Len(bytes)]

(* C9: every Set-Tempo meta event decoded appends one entry to the tempo   *)
(* list, with the event's tick and bpm = 60,000,000 / the big-endian value *)
(* of the payload; no other event changes the tempo list.                  *)
\* The big-endian value of a payload of 4 bytes whose first is 0x80 or above
\* is 2^31 or more; of such a payload the formula states only that the bpm is
\* a positive number, which the claim implies.
C9_SetTempo ==
    [][ (EventStep /\ last'.calls # <<>>)
        => IF Handler'.fn = "_parseMetaEvent" /\ Handler'.a = 81
           THEN LET payload == SubSeq(data, Handler'.at + 1, Handler'.at + Handler'.b)
                    bpm == tempo'[Len(tempo')].bpm
                IN  /\ Len(tempo') = Len(tempo) + 1
                    /\ SubSeq(tempo', 1, Len(tempo)) = tempo
                    /\ tempo'[Len(tempo')].tick = last'.tick
                    /\ IF Len(payload) < 4 \/ payload[1] < 128
                       THEN bpm = JSDiv(60000000, BigEndian(payload))
                       ELSE bpm.num > 0 /\ bpm.den > 0
           ELSE tempo' = tempo
      ]_vars

-----------------------------------------------------------------------------
(* What the claims about the header speak of *)

WrongFormat == "MidiParser: Wrong MIDI file format."

(* C7: a buffer shorter than 18 bytes, or one that does not start with     *)
(* 'MThd', fails with the wrong-format error before any parsing starts:    *)
(* no header, event list or tempo list comes back.                         *)
C7_MalformedInput ==
    (pc # "new" /\ (Len(data) < 18 \/ SubSeq(data, 1, 4) # MThd))
        => /\ pc = "error"
           /\ err = WrongFormat
           /\ dataOffset = 0
           /\ event = <<>> /\ tempo = <<>>
           /\ format = 0 /\ totalTracks = 0 /\ ticksPerBeat = 0

C7_Witness ==
    /\ pc = "error"
    /\ Len(data) = 17
    /\ SubSeq(data, 1, 4) = MThd

(* C8: for the header exportToMidiFile writes ('MThd', 6, format 0, one    *)
(* track, division 480) and for every header of length 6 whose division    *)
(* has its top bit clear, decode recovers the format, the track count and  *)
(* the ticks per quarter note that were written.                           *)
C8_HeaderRoundTrip ==
    (/\ pc \notin {"new", "header"}
     /\ Len(data) >= 18
     /\ hdr.tag = MThd /\ hdr.length = 6 /\ hdr.division < 32768)
        => /\ format = hdr.format
           /\ totalTracks = hdr.ntrks
           /\ ticksPerBeat = hdr.division
           /\ err \notin {WrongFormat, "MidiParser: Wrong header length."}

C8_Witness ==
    /\ pc = "done"
    /\ hdr = Header(0, 1, 480)
    /\ format = 0 /\ totalTracks = 1 /\ ticksPerBeat = 480


-----------------------------------------------------------------------------
(* What the claims about the encoder speak of *)

\* Pitch-Bend before Note-On before Note-Off
KindPriority(type) == CASE type = "bend" -> 0 [] type = "on" -> 1 [] type = "off" -> 2

(* C2: the events the pitch-bending exportToMidiFile emits are in          *)
(* ascending tick order, and among events of one tick every Pitch-Bend     *)
(* comes before every Note-On and every Note-On before every Note-Off; so  *)
(* the Pitch-Bend of a note is emitted before its Note-On.                 *)
C2_BendSortOrder ==
    (xpc = "exported" /\ variant = "bend")
        => \A i, j \in 1..Len(noteEvents) :
              i < j => /\ noteEvents[i].tick <= noteEvents[j].tick
                       /\ noteEvents[i].tick = noteEvents[j].tick
                             => KindPriority(noteEvents[i].type) <= KindPriority(noteEvents[j].type)

(* C10: exportToMidiFile called with an empty note list, in either         *)
(* variant, reports 'No notes to export', builds no byte array, triggers   *)
(* no download and does not throw.                                         *)
C10_EmptyExport ==
    (xpc # "idle" /\ circles = <<>>)
        => /\ xpc = "alerted"
           /\ alerted = "No notes to export."
           /\ midiBytes = <<>>
           /\ noteEvents = <<>>
           /\ ~downloaded

C10_Witness ==
    /\ circles = <<>>
    /\ variant = "bend"
    /\ xpc = "alerted"
    /\ alerted = "No notes to export."

-----------------------------------------------------------------------------
(* The round trip through the plain encoder and the decoder *)

\* what the encoder computes for the circles it exports: start tick,
\* duration in ticks, MIDI note number, velocity
Exported ==
    LET firstBeat == FirstBeat(circles)
        kept == SelectSeq(circles, LAMBDA c : StartTick(c, firstBeat) >= 0)
    IN  [i \in 1..Len(kept) |->
            [tick |-> StartTick(kept[i], firstBeat),
             duration |-> DurationTicks(kept[i], currentTempo),
             note |-> FrequencyToMidiNote(kept[i].frequency),
             velocity |-> Velocity(kept[i])]]

\* the Note-On records of the decoder, the same four fields of each
DecodedNotes ==
    LET ons == OfType(event, 9)
    IN  [i \in 1..Len(ons) |->
            [tick |-> ons[i].tick, duration |-> ons[i].duration,
             note |-> ons[i].note, velocity |-> ons[i].velocity]]

Count(seq, x) == Cardinality({i \in 1..Len(seq) : seq[i] = x})

\* one record for every note, and no other
SameNotes(a, b) ==
    /\ Len(a) = Len(b)
    /\ \A i \in 1..Len(a) : Count(a, a[i]) = Count(b, a[i])

(* C4 as claimed: decoding what the plain exportToMidiFile wrote gives,    *)
(* for every exported note, one Note-On record with the start tick, the    *)
(* duration, the note number and the velocity the encoder computed, also   *)
(* when notes of one pitch overlap or touch and in any input order.        *)
C4_RoundTripAnyNotes ==
    (pc = "done" /\ xpc = "exported") => SameNotes(Exported, DecodedNotes)

\* no two exported notes of one pitch overlap, and where one ends on the tick
\* the other starts, the one that ends comes first in the list
EndsBefore(a, b, aFirst) ==
    \/ a.tick + a.duration < b.tick
    \/ a.tick + a.duration = b.tick /\ aFirst

SamePitchApart ==
    \A i, j \in 1..Len(Exported) :
        (i < j /\ Exported[i].note = Exported[j].note)
            => \/ EndsBefore(Exported[i], Exported[j], TRUE)
               \/ EndsBefore(Exported[j], Exported[i], FALSE)

(* C4 as amended: the same, for note lists in which no two notes of one    *)
(* pitch overlap in time and, where one ends on the tick the other         *)
(* starts, the one that ends comes first in the input list.                *)
C4_RoundTrip ==
    (pc = "done" /\ xpc = "exported" /\ SamePitchApart) => SameNotes(Exported, DecodedNotes)

\* two notes of one pitch that touch, and one of another pitch under them
C4_Witness ==
    /\ pc = "done"
    /\ xpc = "exported"
    /\ SamePitchApart
    /\ Len(Exported) = 2
    /\ Exported[1].note = Exported[2].note
    /\ Exported[1].tick + Exported[1].duration = Exported[2].tick
    /\ Exported[1].duration > 127
    /\ SameNotes(Exported, DecodedNotes)

-----------------------------------------------------------------------------
(* What the claim about the variable-length codec speaks of *)

RECURSIVE Groups(_)
\* the number of 7-bit groups n needs
Groups(n) == IF n < 128 THEN 1 ELSE 1 + Groups(n \div 128)

(* C5: for 0 <= n <= 2^28 - 1, writeVariableLength(n) gives as many bytes  *)
(* as n needs 7-bit groups (the one byte 0x00 for 0), the high bit set on  *)
(* every byte but the last; _readVariableLengthNumber reads n back from    *)
(* them and advances the cursor by the number of bytes written.            *)
C5_VlqRoundTrip ==
    LET start == Len(data) - 1 - Len(vlqBuf)
    IN  /\ pc \in {"vlq-written", "vlq-read"}
              => /\ Len(vlqBuf) = Groups(vlqIn)
                 /\ \A i \in 1..Len(vlqBuf) :
                       /\ vlqBuf[i] \in 0..255
                       /\ (vlqBuf[i] >= 128) = (i < Len(vlqBuf))
                 /\ vlqIn = 0 => vlqBuf = <<0>>
                 /\ SubSeq(data, start + 1, start + Len(vlqBuf)) = vlqBuf
        /\ pc = "vlq-read"
              => /\ vlqOut.n = vlqIn
                 /\ dataOffset = start + Len(vlqBuf)

C5_Witness ==
    /\ pc = "vlq-read"
    /\ vlqIn = Pow2(28) - 1
    /\ vlqBuf = <<255, 255, 255, 127>>
    /\ vlqOut.n = vlqIn


-----------------------------------------------------------------------------
(* The pitch bend calculation on its own: the same lines in                 *)
(* playNoteOnMidiOutput and in the pitch-bending exportToMidiFile           *)

BendSpan == 150

\* frequencies within BendSpan cents of 440 Hz
BendInputs == (0 - BendSpan)..BendSpan

InitBend ==
    /\ bendFrequency \in BendInputs
    /\ bend = NoBend
    /\ pc = "bend"
    /\ data = <<>>
    /\ hdr = Header(0, 1, TICKS_PER_BEAT)
    /\ InitDecoder
    /\ InitExportIdle
    /\ vlqIn = 0
    /\ vlqBuf = <<>>
    /\ vlqOut = [n |-> 0, off |-> 0]
    /\ InitLiveIdle

\* closestMidiNote, bendValue, lsb and msb for bendFrequency
ComputeBend ==
    /\ pc = "bend"
    /\ LET bendValue == BendValue(bendFrequency)
       IN  bend' = [closestMidiNote |-> FrequencyToClosestMidiNote(bendFrequency),
                    bendValue |-> bendValue,
                    lsb |-> JSAnd(bendValue, 127),
                    msb |-> JSAnd(Shr(bendValue, 7), 127)]
    /\ pc' = "bend-done"
    /\ UNCHANGED <<data, hdr, dataOffset, event, tempo, format, totalTracks, ticksPerBeat,
                   lastEventType, trackIdx, trackEnd, tick, err, last, exportVars, vlqVars,
                   bendFrequency, liveVars>>

SpecBend == InitBend /\ [][ComputeBend]_vars

\* how many cents bendFrequency lies above the MIDI note below it
CentsAbove == bendFrequency % 100

\* the claims of C11 that hold of every frequency
BendInRange ==
    /\ CentsAbove = 0 => bend.bendValue = 8192
    /\ bend.bendValue \in 0..16383
    /\ bend.lsb = bend.bendValue % 128
    /\ bend.msb = bend.bendValue \div 128
    /\ bend.lsb \in 0..127
    /\ bend.msb \in 0..127

(* C11 as claimed: the bend value is 8192 at zero deviation, strictly      *)
(* above 8192 for a note up to and including 50 cents (a quarter-tone)     *)
(* above a MIDI note, always in 0..16383, and lsb = value mod 128,         *)
(* msb = value div 128, both in 0..127.                                    *)
C11_BendValueQuarterTone ==
    pc = "bend-done"
        => /\ BendInRange
           /\ CentsAbove \in 1..50 => bend.bendValue > 8192

(* C11 as amended: the same, with the value strictly above 8192 for a note *)
(* 1 to 49 cents above a MIDI note; a note exactly 50 cents above one is   *)
(* taken as 50 cents below the next note up and gets 6144.                 *)
C11_BendValue ==
    pc = "bend-done"
        => /\ BendInRange
           /\ CentsAbove \in 1..49 => bend.bendValue > 8192
           /\ CentsAbove = 50
                 => /\ bend.closestMidiNote = 69 + (bendFrequency + 50) \div 100
                    /\ bend.bendValue = 6144

C11_Witness ==
    /\ pc = "bend-done"
    /\ bendFrequency = 25
    /\ bend = [closestMidiNote |-> 69, bendValue |-> 9216, lsb |-> 0, msb |-> 72]


-----------------------------------------------------------------------------
(* What the claims about the decoder's errors speak of *)

UnknownEventType == "MidiParser: Unknown event type: "

\* the status byte in force for the event at the cursor: the byte after the
\* delta-time, or the status of the event before when that is a data byte
EffectiveStatus ==
    LET b == At(SkipDelta(dataOffset))
    IN  IF JSLt(b, 128) THEN lastEventType ELSE b

(* C12: when the status byte in force for an event, after running status,  *)
(* has a top nibble outside 0x8..0xF (a data byte met before any status    *)
(* byte), the constructor throws the unknown-event-type error, and once it *)
(* has thrown no parser, so no event list, is ever returned.               *)
C12_UnknownEventType ==
    [][ /\ (pc = "event" /\ JSLt(dataOffset, trackEnd) /\ EffectiveStatus \div 16 \notin 8..15)
            => (pc' = "error" /\ err' = UnknownEventType)
        /\ pc = "error" => pc' = "error"
      ]_vars

C12_Witness ==
    /\ pc = "error"
    /\ err = UnknownEventType
    /\ last.running
    /\ last.status = 0
    /\ At(last.first) = 61


-----------------------------------------------------------------------------
(* Files the decoder is run on that no encoder of the repository writes:    *)
(* cut short, with delta-times of five bytes, with two tracks               *)

MaxStreamEvents == 2
MaxCut == 2

\* 0x8C 80 80 80 00: five bytes, the value 12 * 2^28
LongDelta == <<140, 128, 128, 128, 0>>

StreamDeltas == {<<0>>, <<100>>, WriteVariableLength(200), LongDelta}

StreamBodies == {
    <<144, 60, 100>>,                \* Note-On, channel 0, note 60
    <<128, 60, 64>>,                 \* Note-Off, channel 0, note 60
    <<255, 81, 3, 7, 161, 32>>,      \* Set-Tempo, 500000
    <<255, 3, 2, 65, 66>> }          \* Track name "AB"

StreamFragments == {d \o b : d \in StreamDeltas, b \in StreamBodies}

\* one track of up to MaxStreamEvents events, or two tracks of up to one
StreamFiles ==
    {[hdr |-> Header(0, 1, 480), tracks |-> <<Flatten(fs)>>] :
        fs \in SeqsUpTo(StreamFragments, MaxStreamEvents)}
    \cup {[hdr |-> Header(1, 2, 480), tracks |-> <<Flatten(a), Flatten(b)>>] :
            a \in SeqsUpTo(StreamFragments, 1), b \in SeqsUpTo(StreamFragments, 1)}

\* a file with up to MaxCut bytes missing at its end, never below the 18
\* bytes the constructor asks for, is handed to new MidiParser
InitStream ==
    /\ \E f \in StreamFiles :
         LET bytes == FileBytes(f.hdr, f.tracks)
         IN  /\ hdr = f.hdr
             /\ \E cut \in 0..MaxCut :
                    /\ Len(bytes) - cut >= 18
                    /\ data = SubSeq(bytes, 1, Len(bytes) - cut)
    /\ pc = "new"
    /\ InitDecoder
    /\ InitExportIdle
    /\ InitVLQIdle

SpecStream == InitStream /\ [][Decode]_vars

\* no field of e was read from past the end of the buffer
InBuffer(e) == \A f \in DOMAIN e : e[f] # NaN

(* C13: a cursor read that needs bytes past the end of the buffer makes    *)
(* the constructor throw, and a decode that succeeds holds no event,       *)
(* header field or tempo built from bytes that are not in the buffer.      *)
C13_TruncatedInput ==
    [][ /\ dataOffset' > Len(data) => pc' = "error"
        /\ pc' = "done"
              => /\ \A i \in 1..Len(event') : InBuffer(event'[i])
                 /\ \A i \in 1..Len(tempo') : tempo'[i].bpm.den # 0
                 /\ format' # NaN /\ totalTracks' # NaN /\ ticksPerBeat' # NaN
      ]_vars

\* the number of bytes of the variable-length quantity at off
VlqLength(off) == SkipDelta(off) - off

(* C14: a delta-time whose continuation bit is still set after 4 bytes is  *)
(* rejected: the constructor throws, and no tick is advanced by a value    *)
(* accumulated from more than 4 bytes.                                     *)
C14_MalformedVlq ==
    [][ (pc = "event" /\ JSLt(dataOffset, trackEnd) /\ VlqLength(dataOffset) > 4)
            => (pc' = "error" /\ tick' = tick)
      ]_vars


\* e without its duration, which a later Note-Off may set
Recorded(e) == [e EXCEPT !.duration = Undefined]

(* C19: the event list is in the physical order of the file (an event is   *)
(* appended at the end with the tick of the track at that point and never  *)
(* moves), the tick restarts at 0 for every track and never decreases      *)
(* within a track; so the ticks of a decoded one-track file are            *)
(* non-decreasing.                                                         *)
C19_EventOrder ==
    /\ [][ /\ (pc = "track" /\ pc' = "event") => tick' = 0
           /\ EventStep
                 => /\ tick' >= tick
                    /\ Len(event') \in {Len(event), Len(event) + 1}
                    /\ \A j \in 1..Len(event) : Recorded(event'[j]) = Recorded(event[j])
                    /\ Len(event') > Len(event) => event'[Len(event')].tick = tick'
         ]_vars
    /\ [](pc = "done" /\ totalTracks = 1
            => \A i, j \in 1..Len(event) : i < j => event[i].tick <= event[j].tick)


-----------------------------------------------------------------------------
(* The pitch-bending exportToMidiFile called with more notes than the pool  *)
(* has channels, and called again                                           *)

MaxPoolNotes == 17

\* n notes, note i starting i * step quarter beats in, all of one length
\* and pitch
PoolCircles(n, step, playLength, frequency) ==
    [i \in 1..n |-> [relativeX |-> ((i - 1) * step) % (MaxBeat + 1), playLength |-> playLength,
                     frequency |-> frequency, velocity |-> 64]]

InitRoundRobin ==
    /\ circles \in {PoolCircles(n, step, p, f) :
                       n \in 0..MaxPoolNotes, step \in 0..2, p \in 0..1, f \in Frequencies}
    /\ currentTempo = 240
    /\ variant = "bend"
    /\ noteEvents = <<>>
    /\ midiBytes = <<>>
    /\ alerted = ""
    /\ downloaded = FALSE
    /\ xpc = "idle"
    /\ data = <<>>
    /\ hdr = Header(0, 1, TICKS_PER_BEAT)
    /\ pc = "off"
    /\ InitDecoder
    /\ InitVLQIdle

\* exportToMidiFile is called again, with the list less its first note: its
\* locals are new
ExportAgain ==
    /\ xpc = "exported"
    /\ Len(circles) > 1
    /\ circles' = Tail(circles)
    /\ noteEvents' = <<>>
    /\ midiBytes' = <<>>
    /\ downloaded' = FALSE
    /\ xpc' = "idle"
    /\ UNCHANGED <<data, hdr, decoderVars, currentTempo, variant, alerted, vlqVars,
                   bendVars, liveVars>>

SpecRoundRobin == InitRoundRobin /\ [][Export \/ ExportAgain]_vars

\* the channel C18 gives the i-th note, i counting from 0
PoolChannel(i) == channelPool[(i % 15) + 1]

\* the events of the i-th note of the list, i counting from 1, on channel ch
NoteEventsOn(i, ch) ==
    LET c == circles[i]
        startTick == StartTick(c, FirstBeat(circles))
        note == FrequencyToClosestMidiNote(c.frequency)
        bendValue == BendValue(c.frequency)
    IN  << [type |-> "bend", tick |-> startTick, lsb |-> bendValue % 128,
            msb |-> bendValue \div 128, channel |-> ch],
           [type |-> "on", tick |-> startTick, note |-> note, velocity |-> Velocity(c),
            channel |-> ch],
           [type |-> "off", tick |-> startTick + DurationTicks(c, currentTempo), note |-> note,
            velocity |-> 0, channel |-> ch] >>

(* C18: in the pitch-bending export the i-th note of the list, counting    *)
(* from 0, gets channel channelPool[i mod 15]: its Pitch-Bend, Note-On and *)
(* Note-Off carry that channel and are the only events emitted; channel 9  *)
(* is never used; every call starts again at the first pool channel.       *)
C18_RoundRobinChannels ==
    (xpc = "exported" /\ variant = "bend")
        => /\ Len(noteEvents) = 3 * Len(circles)
           /\ \A i \in 1..Len(circles) : \A k \in 1..3 :
                 LET e == NoteEventsOn(i, PoolChannel(i - 1))[k]
                 IN  Count(noteEvents, e)
                        = Cardinality({j \in 1..Len(circles) :
                                          NoteEventsOn(j, PoolChannel(j - 1))[k] = e})
           /\ \A j \in 1..Len(noteEvents) : noteEvents[j].channel # 9

\* seventeen notes: the sixteenth and seventeenth are on channels 0 and 1
\* again
C18_Witness ==
    /\ xpc = "exported"
    /\ variant = "bend"
    /\ Len(circles) = 17
    /\ Cardinality({j \in 1..Len(noteEvents) :
                       noteEvents[j].type = "on" /\ noteEvents[j].channel = 0}) = 2
    /\ Cardinality({j \in 1..Len(noteEvents) :
                       noteEvents[j].type = "on" /\ noteEvents[j].channel = 15}) = 1
    /\ Cardinality({j \in 1..Len(noteEvents) :
                       noteEvents[j].type = "on" /\ noteEvents[j].channel = 10}) = 1


-----------------------------------------------------------------------------
(* The two encoders side by side *)

\* what is left of the pitch-bending encoder's events without the Pitch-Bend
\* events: tick, kind, note and velocity of each
WithoutBends(evs) ==
    LET kept == SelectSeq(evs, LAMBDA e : e.type # "bend")
    IN  [i \in 1..Len(kept) |->
            [tick |-> kept[i].tick, type |-> kept[i].type, note |-> kept[i].note,
             velocity |-> kept[i].velocity]]

\* tick, kind, note and velocity of the events the plain encoder emits for
\* the same list
PlainNoteEvents ==
    LET evs == Sort("plain", CollectPlain(circles, FirstBeat(circles), currentTempo))
    IN  [i \in 1..Len(evs) |->
            [tick |-> evs[i].tick, type |-> evs[i].type, note |-> evs[i].note,
             velocity |-> evs[i].velocity]]

(* C20: the events of the pitch-bending encoder, less the Pitch-Bend       *)
(* events (the RPN messages are not among the note events) and with every  *)
(* channel set to 0, are the events of the plain encoder for the same      *)
(* list: the same (tick, kind, note, velocity), in the same order.         *)
C20_PlainIsSubset ==
    (xpc = "exported" /\ variant = "bend") => WithoutBends(noteEvents) = PlainNoteEvents


-----------------------------------------------------------------------------
(* Live playback (part_001): setMidiOutput, onMIDISuccess,                  *)
(* playNoteOnMidiOutput and the callbacks it gives to setTimeout.           *)
(*                                                                          *)
(* A timer is [id, due, idx, channel, note]: the value setTimeout returned, *)
(* the time it is due, and what its callback holds: the channel object      *)
(* (the idx-th of the array it was found in), channel and closestMidiNote.  *)
(* The object of a timer is channels[idx] until initializeMidiChannels      *)
(* replaces the array, and detached[id] from then on.  A timer runs when    *)
(* its time has come, earlier timers first; time does not move on while a   *)
(* timer is due, but other handlers may run before it.                      *)

MaxSelects == 2
MaxLivePlays == 3
MaxNow == 2

Outputs == {"A", "B"}
LiveFrequencies == {25}
LiveLengths == {1, 2}
LiveVelocities == {64}

\* the array initializeMidiChannels builds
FreshChannels ==
    [i \in 1..Len(channelPool) |->
        [channel |-> channelPool[i], inUse |-> FALSE, note |-> Null, timeoutId |-> Null]]

\* the messages initializeMidiChannels sends to output
InitMessages(output) ==
    LET rpn(channel) == << <<176 + channel, 101, 0>>, <<176 + channel, 100, 0>>,
                           <<176 + channel, 6, PITCH_BEND_RANGE_SEMITONES>>,
                           <<176 + channel, 38, 0>>, <<176 + channel, 101, 127>>,
                           <<176 + channel, 100, 127>> >>
        all == Flatten([i \in 1..Len(channelPool) |-> rpn(channelPool[i])])
    IN  [i \in 1..Len(all) |-> [to |-> output, bytes |-> all[i]]]

\* whether the object of timer t is still in midiChannelManager.channels
Attached(t) == t.id \notin DOMAIN detached

\* the channel objects that pending timers hold, once the array is replaced
Detach == [id \in {t.id : t \in timers} |->
              IF id \in DOMAIN detached THEN detached[id]
              ELSE channels[(CHOOSE t \in timers : t.id = id).idx]]

\* setMidiOutput(e), e.target.value naming output o or no output
SetMidiOutput ==
    /\ selects < MaxSelects
    /\ \E o \in Outputs \cup {"none"} :
         /\ activeMidiOutput' = o
         /\ IF o # "none"
            THEN /\ channels' = FreshChannels
                 /\ detached' = Detach
                 /\ sent' = InitMessages(o)
                 /\ isInitialized' = TRUE
            ELSE /\ isInitialized' = FALSE
                 /\ sent' = <<>>
                 /\ UNCHANGED <<channels, detached>>
    /\ selects' = selects + 1
    /\ liveOp' = [op |-> "select", dropped |-> FALSE, threw |-> FALSE]
    /\ UNCHANGED <<data, hdr, decoderVars, exportVars, vlqVars, bendVars, timers, timeouts,
                   plays, now>>

\* onMIDISuccess(access): MIDI access is acquired again
OnMIDISuccess ==
    /\ isInitialized
    /\ isInitialized' = FALSE
    /\ sent' = <<>>
    /\ liveOp' = [op |-> "access", dropped |-> FALSE, threw |-> FALSE]
    /\ UNCHANGED <<data, hdr, decoderVars, exportVars, vlqVars, bendVars, activeMidiOutput,
                   channels, detached, timers, timeouts, selects, plays, now>>

\* a find that hands out the first channel when none is free
FindFreeOrFirst(chs) ==
    IF \E i \in 1..Len(chs) : ~chs[i].inUse
    THEN CHOOSE i \in 1..Len(chs) : ~chs[i].inUse /\ \A j \in 1..(i - 1) : chs[j].inUse
    ELSE IF chs = <<>> THEN 0 ELSE 1

\* channels.find(ch => !ch.inUse): the index of the first free one, 0 for
\* undefined
FindFree(chs) ==
    IF \E i \in 1..Len(chs) : ~chs[i].inUse
    THEN CHOOSE i \in 1..Len(chs) : ~chs[i].inUse /\ \A j \in 1..(i - 1) : chs[j].inUse
    ELSE 0

\* playNoteOnMidiOutput(frequency, playLength, velocity)
PlayNoteOnMidiOutput ==
    /\ plays < MaxLivePlays
    /\ plays' = plays + 1
    /\ \E frequency \in LiveFrequencies, playLength \in LiveLengths, velocity \in LiveVelocities :
         LET i == FindFree(channels)
             closestMidiNote == FrequencyToClosestMidiNote(frequency)
             bendValue == BendValue(frequency)
             lsb == JSAnd(bendValue, 127)
             msb == JSAnd(Shr(bendValue, 7), 127)
         IN  IF activeMidiOutput = "none" \/ ~isInitialized \/ i = 0
             THEN /\ liveOp' = [op |-> "play", dropped |-> TRUE, threw |-> FALSE]
                  /\ sent' = <<>>
                  /\ UNCHANGED <<channels, timers, timeouts>>
             ELSE LET channel == channels[i].channel
                  IN  /\ sent' = << [to |-> activeMidiOutput, bytes |-> <<224 + channel, lsb, msb>>],
                                    [to |-> activeMidiOutput,
                                     bytes |-> <<144 + channel, closestMidiNote, velocity>>] >>
                      /\ channels' = [channels EXCEPT ![i] =
                                         [channel |-> channel, inUse |-> TRUE,
                                          note |-> closestMidiNote, timeoutId |-> timeouts + 1]]
                      /\ timers' = timers \cup {[id |-> timeouts + 1, due |-> now + playLength,
                                                 idx |-> i, channel |-> channel,
                                                 note |-> closestMidiNote]}
                      /\ timeouts' = timeouts + 1
                      /\ liveOp' = [op |-> "play", dropped |-> FALSE, threw |-> FALSE]
    /\ UNCHANGED <<data, hdr, decoderVars, exportVars, vlqVars, bendVars, activeMidiOutput,
                   isInitialized, detached, selects, now>>

\* the timers whose time has come
Due == {t \in timers : t.due <= now}

\* the timer that runs next
NextTimer ==
    CHOOSE t \in Due : \A u \in Due : t.due < u.due \/ (t.due = u.due /\ t.id <= u.id)

\* the callback of a timer runs
TimerFires ==
    /\ Due # {}
    /\ LET t == NextTimer
           channel == t.channel
       IN  /\ timers' = timers \ {t}
           /\ IF activeMidiOutput = "none"
              THEN \* undefined.send: a TypeError ends the callback at its first line
                   /\ sent' = <<>>
                   /\ liveOp' = [op |-> "timer", dropped |-> FALSE, threw |-> TRUE]
                   /\ UNCHANGED channels
              ELSE /\ sent' = << [to |-> activeMidiOutput, bytes |-> <<128 + channel, t.note, 0>>],
                                 [to |-> activeMidiOutput, bytes |-> <<224 + channel, 0, 64>>] >>
                   /\ liveOp' = [op |-> "timer", dropped |-> FALSE, threw |-> FALSE]
                   /\ channels' = IF Attached(t)
                                  THEN [channels EXCEPT ![t.idx] =
                                           [channel |-> channels[t.idx].channel, inUse |-> FALSE,
                                            note |-> Null, timeoutId |-> Null]]
                                  ELSE channels
           /\ detached' = [id \in DOMAIN detached \ {t.id} |-> detached[id]]
    /\ UNCHANGED <<data, hdr, decoderVars, exportVars, vlqVars, bendVars, activeMidiOutput,
                   isInitialized, timeouts, selects, plays, now>>

\* a second passes
Advance ==
    /\ now < MaxNow
    /\ Due = {}
    /\ now' = now + 1
    /\ sent' = <<>>
    /\ liveOp' = [op |-> "wait", dropped |-> FALSE, threw |-> FALSE]
    /\ UNCHANGED <<data, hdr, decoderVars, exportVars, vlqVars, bendVars, activeMidiOutput,
                   isInitialized, channels, detached, timers, timeouts, selects, plays>>

Live == SetMidiOutput \/ OnMIDISuccess \/ PlayNoteOnMidiOutput \/ TimerFires \/ Advance

\* output A selected and fourteen notes of two seconds started at time 0,
\* one second ago
BusyChannels ==
    [i \in 1..Len(channelPool) |->
        IF i <= 14
        THEN [channel |-> channelPool[i], inUse |-> TRUE, note |-> 60, timeoutId |-> i]
        ELSE [channel |-> channelPool[i], inUse |-> FALSE, note |-> Null, timeoutId |-> Null]]

InitLiveBusy ==
    /\ activeMidiOutput = "A"
    /\ isInitialized = TRUE
    /\ channels = BusyChannels
    /\ detached = <<>>
    /\ timers = {[id |-> i, due |-> 2, idx |-> i, channel |-> channelPool[i], note |-> 60] :
                    i \in 1..14}
    /\ timeouts = 14
    /\ selects = 1
    /\ plays = 0
    /\ now = 1
    /\ sent = <<>>
    /\ liveOp = NoOp

\* the page as loaded, or with fourteen notes sounding
InitLive ==
    /\ InitLiveIdle \/ InitLiveBusy
    /\ data = <<>>
    /\ hdr = Header(0, 1, TICKS_PER_BEAT)
    /\ pc = "off"
    /\ InitDecoder
    /\ InitExportIdle
    /\ vlqIn = 0
    /\ vlqBuf = <<>>
    /\ vlqOut = [n |-> 0, off |-> 0]
    /\ InitBendIdle

SpecLive == InitLive /\ [][Live]_vars


-----------------------------------------------------------------------------
(* What the claims about live playback speak of *)

(* C15: no channel is given to a new note while an earlier note that was   *)
(* given that channel has not been released by its timer: the notes whose  *)
(* timers are pending hold distinct channels.                              *)
C15_DistinctChannels ==
    \A t, u \in timers : t # u => t.channel # u.channel

\* every pooled channel is in use
PoolFull == channels # <<>> /\ \A i \in 1..Len(channels) : channels[i].inUse

(* C16: when all 15 pooled channels are in use, or no output is active, or *)
(* the pool is not initialized, playNoteOnMidiOutput sends no message,     *)
(* schedules no timer and leaves every channel's inUse, note and           *)
(* timeoutId as they were.                                                 *)
C16_DroppedNote ==
    [][ (liveOp'.op = "play" /\ plays' = plays + 1
         /\ (PoolFull \/ activeMidiOutput = "none" \/ ~isInitialized))
            => /\ liveOp'.dropped
               /\ sent' = <<>>
               /\ UNCHANGED <<channels, detached, timers, timeouts>>
      ]_vars

C16_Witness ==
    /\ liveOp.op = "play"
    /\ liveOp.dropped
    /\ activeMidiOutput = "A"
    /\ isInitialized
    /\ Len(channels) = 15
    /\ PoolFull
    /\ Cardinality(timers) = 15

\* the channel object timer t holds, after the step
ObjectNext(t) == IF t.id \in DOMAIN detached' THEN detached'[t.id] ELSE channels'[t.idx]

(* C17: a channel object marked in-use stays in-use while its release      *)
(* timer is pending, whatever setMidiOutput does, and is marked free when  *)
(* that timer fires.                                                       *)
C17_ReleasedByTimer ==
    [][ \A t \in timers :
           IF t \in timers'
           THEN ObjectNext(t).inUse /\ ObjectNext(t).timeoutId = t.id
           ELSE /\ ~liveOp'.threw
                /\ Attached(t)
                      => channels'[t.idx] = [channel |-> t.channel, inUse |-> FALSE,
                                             note |-> Null, timeoutId |-> Null]
      ]_vars


-----------------------------------------------------------------------------
(* Files of two track chunks whose first holds meta events of every kind,   *)
(* with the usual length and with another, and declares its own length      *)
(* rightly, one byte short, or with the top bit of the length field set     *)

MaxChunkEvents == 2

\* 0x8F FF FF FF 78: five bytes, the value 2^32 - 8
LongLength == <<143, 255, 255, 255, 120>>

\* what follows the delta-time 0
ChunkBodies == {
    <<144, 60, 100>>,                   \* Note-On, channel 0, note 60
    <<255, 47, 0>>,                     \* End-of-Track
    <<255, 47, 1, 7>>,                  \* End-of-Track, length 1
    <<255, 84, 5, 1, 2, 3, 4, 5>>,      \* SMPTE-Offset
    <<255, 84, 3, 1, 2, 3>>,            \* SMPTE-Offset, length 3
    <<255, 88, 4, 4, 2, 24, 8>>,        \* Time-Signature
    <<255, 88, 2, 4, 2>>,               \* Time-Signature, length 2
    <<255, 89, 2, 0, 0>>,               \* Key-Signature
    <<255, 89, 3, 0, 0, 0>>,            \* Key-Signature, length 3
    <<255, 3, 2, 65, 66>>,              \* Track name "AB"
    <<255, 96, 2, 1, 2>>,               \* a meta type the switch does not know
    <<255, 81, 3, 7, 161, 32>>,         \* Set-Tempo, 500000
    <<255, 1>> \o LongLength }          \* Text, its length field of five bytes

ChunkFragments == {<<0>> \o b : b \in ChunkBodies}

\* the length fields a chunk of n bytes, n < 256, is written with
LengthFields(n) ==
    {Write32(n), <<128, 0, 0, n>>} \cup (IF n > 0 THEN {Write32(n - 1)} ELSE {})

InitChunk ==
    /\ hdr = Header(1, 2, 480)
    /\ \E fs \in SeqsUpTo(ChunkFragments, MaxChunkEvents) \ {<<>>} :
         \E l \in LengthFields(Len(Flatten(fs))) :
            data = HeaderChunk(hdr) \o MTrk \o l \o Flatten(fs) \o TrackChunk(EndOfTrack)
    /\ pc = "new"
    /\ InitDecoder
    /\ InitExportIdle
    /\ InitVLQIdle

SpecChunk == InitChunk /\ [][Decode]_vars

\* the four bytes of the length field of the chunk whose tag is at the cursor
LengthBytes == [i \in 1..4 |-> At(dataOffset + 3 + i)]

(* C21: _readNumber(4) on the length field of a track chunk returns the     *)
(* unsigned big-endian value of its four bytes, in 0..2^32 - 1, also when   *)
(* the first byte is 0x80 or above, and the cursor advances by exactly 4.   *)
\* The value is stated byte by byte: the unsigned value of a field whose
\* first byte is 0x80 or above is 2^31 or more.
C21_ReadNumberUnsigned ==
    [][ (pc = "track" /\ pc' = "event")
        => LET trackLength == trackEnd' - dataOffset'
           IN  /\ dataOffset' = dataOffset + 8
               /\ trackLength >= 0
               /\ trackLength % 256 = LengthBytes[4]
               /\ (trackLength \div 256) % 256 = LengthBytes[3]
               /\ (trackLength \div 65536) % 256 = LengthBytes[2]
               /\ trackLength \div 16777216 = LengthBytes[1]
      ]_vars

(* C22: for every meta event (0xFF, type, length L), of a recognized type   *)
(* or not, the cursor after the event is exactly L bytes after the length   *)
(* field, End-of-Track, SMPTE-Offset, Time-Signature and Key-Signature      *)
(* events of an unusual length included.                                    *)
C22_MetaLength ==
    [][ (EventStep /\ last'.calls # <<>> /\ Handler'.fn = "_parseMetaEvent")
        => dataOffset' = Handler'.at + Handler'.b
      ]_vars

(* C23: when the parsing of a track ends, the cursor is exactly at the      *)
(* offset after the length field plus the declared track length.            *)
C23_TrackLength ==
    [][ (pc = "event" /\ pc' = "track") => dataOffset = trackEnd ]_vars

(* C28: every iteration of the event loop of a track strictly advances the  *)
(* cursor or throws, so that the decode of a finite buffer terminates.      *)
C28_CursorAdvances ==
    [][ EventStep => (dataOffset' > dataOffset \/ pc' = "error") ]_vars


-----------------------------------------------------------------------------
(* What the claim about durations across tracks speaks of *)

(* C27: after a successful decode, of a file with one track or several,     *)
(* every Note-On record whose duration is set has a duration >= 0: a        *)
(* Note-Off is never paired with a Note-On of a greater tick.               *)
C27_DurationNonNegative ==
    pc = "done"
       => \A i \in 1..Len(event) :
             (event[i].type = 9 /\ event[i].duration # Undefined) => event[i].duration >= 0


-----------------------------------------------------------------------------
(* What the claim about the messages of live playback speaks of *)

(* C29: every Note-On playNoteOnMidiOutput sends on channel c for note n    *)
(* comes right after the Pitch-Bend message of channel c and has a release  *)
(* timer for (c, n); and the timer, when it fires, sends the Note-Off of    *)
(* (c, n) and then the Pitch-Bend reset to 8192 of channel c, whatever      *)
(* setMidiOutput did in between.                                            *)
C29_NoteOffFollows ==
    [][ /\ (liveOp'.op = "play" /\ plays' = plays + 1 /\ ~liveOp'.dropped)
            => /\ Len(sent') = 2
               /\ sent'[2].bytes[1] \in 144..159
               /\ sent'[1].bytes[1] = sent'[2].bytes[1] - 144 + 224
               /\ \E t \in timers' \ timers :
                     /\ t.channel = sent'[2].bytes[1] - 144
                     /\ t.note = sent'[2].bytes[2]
        /\ \A t \in timers \ timers' :
              /\ Len(sent') = 2
              /\ sent'[1].bytes = <<128 + t.channel, t.note, 0>>
              /\ sent'[2].bytes = <<224 + t.channel, 0, 64>>
      ]_vars


-----------------------------------------------------------------------------
(* What the claims about the bytes of the track speak of *)

\* the bytes of the track chunk after its tag and length
Track == SubSeq(midiBytes, 23, Len(midiBytes))

\* where the first note event starts in Track: after the Set-Tempo event and,
\* in the pitch-bending variant, the 15 * 6 controller messages
FirstEventAt == IF variant = "bend" THEN 7 + 15 * 24 + 1 ELSE 7 + 1

RECURSIVE QuantityAt(_, _, _)
\* the variable-length quantity that starts at bytes[i], n accumulated so
\* far, and the index after it
QuantityAt(bytes, i, n) ==
    IF bytes[i] >= 128 THEN QuantityAt(bytes, i + 1, 128 * n + (bytes[i] - 128))
    ELSE [n |-> 128 * n + bytes[i], next |-> i + 1]

RECURSIVE Emitted(_, _, _)
\* the k events of three bytes, each after its delta-time, from bytes[i] on,
\* and the index after the last
Emitted(bytes, i, k) ==
    IF k = 0 THEN [events |-> <<>>, next |-> i]
    ELSE LET d == QuantityAt(bytes, i, 0)
             rest == Emitted(bytes, d.next + 3, k - 1)
         IN  [events |-> <<[delta |-> d.n, bytes |-> SubSeq(bytes, d.next, d.next + 2)]>>
                            \o rest.events,
              next |-> rest.next]

RECURSIVE Sum(_, _)
\* the sum of the first k deltas
Sum(es, k) == IF k = 0 THEN 0 ELSE Sum(es, k - 1) + es[k].delta

\* the status and data bytes of a note event
Message(e) ==
    CASE e.type = "bend" -> <<224 + e.channel, e.lsb, e.msb>>
      [] e.type = "on"   -> <<144 + e.channel, e.note, e.velocity>>
      [] e.type = "off"  -> <<128 + e.channel, e.note, e.velocity>>

\* the controller and value of each of the 6 RPN messages
RpnPairs == <<<<101, 0>>, <<100, 0>>, <<6, PITCH_BEND_RANGE_SEMITONES>>, <<38, 0>>,
              <<101, 127>>, <<100, 127>>>>

(* C24: the track the pitch-bending encoder writes is, in order, one        *)
(* Set-Tempo meta event at delta 0 whose 3-byte big-endian payload is       *)
(* round(60,000,000 / bpm); for each of the 15 pooled channels the 6 RPN    *)
(* controller messages at delta 0; the sorted note events; one End-of-Track *)
(* meta event with delta 0 and length 0 as the last bytes; and the 4-byte   *)
(* length of the chunk is the number of these bytes.                        *)
C24_TrackLayout ==
    (xpc = "exported" /\ variant = "bend")
       => LET es == Emitted(Track, FirstEventAt, Len(noteEvents))
          IN  /\ SubSeq(midiBytes, 15, 18) = MTrk
              /\ BigEndian(SubSeq(midiBytes, 19, 22)) = Len(Track)
              /\ SubSeq(Track, 1, 4) = <<0, 255, 81, 3>>
              /\ BigEndian(SubSeq(Track, 5, 7)) = JSRound(60000000, currentTempo)
              /\ \A c \in 1..15 : \A m \in 1..6 :
                    SubSeq(Track, 7 + 24 * (c - 1) + 4 * (m - 1) + 1,
                                  7 + 24 * (c - 1) + 4 * m)
                       = <<0, 176 + channelPool[c]>> \o RpnPairs[m]
              /\ \A k \in 1..Len(noteEvents) : es.events[k].bytes = Message(noteEvents[k])
              /\ es.next = Len(Track) - 3
              /\ SubSeq(Track, Len(Track) - 3, Len(Track)) = <<0, 255, 47, 0>>

\* a velocity clamped into 1..127
Clamped(velocity) == IF velocity < 1 THEN 1 ELSE IF velocity > 127 THEN 127 ELSE velocity

(* C25: every Note-On the encoder emits has a velocity in 1..127, the       *)
(* velocity of its input note clamped into [1, 127] (0 and below become 1,  *)
(* above 127 becomes 127), and every Note-Off has velocity 0.               *)
C25_VelocityClamp ==
    xpc = "exported"
       => /\ \A k \in 1..Len(noteEvents) :
                /\ noteEvents[k].type = "off" => noteEvents[k].velocity = 0
                /\ noteEvents[k].type = "on" => noteEvents[k].velocity \in 1..127
          /\ \A v \in 1..127 :
                Cardinality({k \in 1..Len(noteEvents) :
                                noteEvents[k].type = "on" /\ noteEvents[k].velocity = v})
                   = Cardinality({i \in 1..Len(circles) : Clamped(circles[i].velocity) = v})

(* C26: every delta-time the encoder writes is non-negative and is the tick *)
(* of its event minus the tick of the event emitted before (0 before the    *)
(* first), so the deltas up to an event sum to its tick; and the earliest   *)
(* note's Note-On is at tick 0.                                             *)
C26_DeltaTimes ==
    xpc = "exported"
       => LET es == Emitted(Track, FirstEventAt, Len(noteEvents)).events
          IN  /\ \A k \in 1..Len(noteEvents) :
                    /\ es[k].delta >= 0
                    /\ es[k].delta
                          = noteEvents[k].tick - (IF k = 1 THEN 0 ELSE noteEvents[k - 1].tick)
                    /\ Sum(es, k) = noteEvents[k].tick
                    /\ es[k].bytes = Message(noteEvents[k])
              /\ \A i \in 1..Len(circles) :
                    circles[i].relativeX = FirstBeat(circles)
                       => \E k \in 1..Len(noteEvents) :
                             /\ noteEvents[k].type = "on"
                             /\ noteEvents[k].tick = 0
                             /\ Sum(es, k) = 0

C26_Witness ==
    /\ xpc = "exported"
    /\ Len(circles) = 2
    /\ LET es == Emitted(Track, FirstEventAt, Len(noteEvents)).events
       IN  \E k \in 2..Len(noteEvents) :
              /\ es[k].delta >= 128
              /\ noteEvents[k - 1].tick > 0
              /\ Sum(es, k) > es[k].delta


-----------------------------------------------------------------------------
(* exportToMidiFile called with a slow tempo *)

\* 60,000,000 / 3 is 20,000,000, above 2^24 - 1; 60,000,000 / 4 is below
SlowTempos == {3, 4}

InitSlow ==
    /\ circles \in SeqsUpTo(Circles, MaxNotes)
    /\ currentTempo \in SlowTempos
    /\ variant \in {"plain", "bend"}
    /\ noteEvents = <<>>
    /\ midiBytes = <<>>
    /\ alerted = ""
    /\ downloaded = FALSE
    /\ xpc = "idle"
    /\ data = <<>>
    /\ hdr = Header(0, 1, TICKS_PER_BEAT)
    /\ pc = "off"
    /\ InitDecoder
    /\ InitVLQIdle

SpecSlow == InitSlow /\ [][Export]_vars

-----------------------------------------------------------------------------
(* The round trip through the pitch-bending encoder and the decoder *)

\* the pitch-bending exportToMidiFile is about to be called with one note at
\* most
InitBendTrip == InitExport /\ variant = "bend" /\ Len(circles) <= 1

SpecBendTrip == InitBendTrip /\ [][Export \/ Load \/ Decode]_vars

\* the Pitch-Bend events the encoder emitted
Bends == SelectSeq(noteEvents, LAMBDA e : e.type = "bend")

(* C30: for every bend value v the encoder writes as status 0xE0|c, then    *)
(* lsb = v mod 128, then msb = v div 128, the decoder's PitchBend event has *)
(* channel c and value v.                                                   *)
C30_BendRoundTrip ==
    (pc = "done" /\ xpc = "exported")
       => /\ Len(OfType(event, 14)) = Len(Bends)
          /\ \A k \in 1..Len(Bends) :
                /\ OfType(event, 14)[k].channel = Bends[k].channel
                /\ OfType(event, 14)[k].value = 128 * Bends[k].msb + Bends[k].lsb

=============================================================================
